---- MODULE Spec2Model ----
(***************************************************************************)
(* Q-InfraTwin TRL4 hybrid prototype: the twin registry, the feature       *)
(* extractor, the classical solver, the simulated quantum gateway, the     *)
(* governance layer, the routing policies and HybridOrchestrator.step as   *)
(* driven by run_sim.                                                      *)
(*                                                                         *)
(* Fixed-point units (Python floats become integers):                      *)
(*   x1, x2, x3, damp           hundredths          (1.0  = 100)           *)
(*   health, objective,                                                    *)
(*   confidence, reward         ten-thousandths     (1.0  = 10000)         *)
(*   noise_proxy, cost_eur,                                                *)
(*   failure probability        hundred-thousandths (1.0  = 100000)        *)
(*   times                      milliseconds; the clock `now` counts from  *)
(*                              the t0 that step reads at line 620         *)
(* An Optional value is a sequence: <<>> is None, <<v>> is the value v.    *)
(***************************************************************************)
EXTENDS Integers, Sequences, FiniteSets, TLC

VARIABLES
    policy_name,    \* HybridOrchestrator.policy_name
    num_twins,      \* run_sim's `twins` argument
    registry,       \* TwinCORE.registry
    history,        \* TwinCORE.history
    buffers,        \* FeatureExtractor.buffers
    job_counter,    \* SimulatedCloudQPU._job_counter
    bandit,         \* ContextualBanditPolicy, as far as the orchestrator drives it
    step_id,        \* run_sim's step_id
    pc,             \* where run_sim / step stands
    now,            \* time.time() - t0, in ms
    handle,         \* the JobHandle of the current quantum attempt
    loc,            \* the local variables of the running step
    gw_calls,       \* gateway calls made after the local cancel of the attempt
    gw_results,     \* first and latest result get_result returned once ready
    env,            \* the inputs of the run: its length, clock readings, draws
    prior_run,      \* the history of an earlier run on the same seeds and telemetry
    twin_call,      \* the latest TwinCORE call made directly, and how it ended
    fn_call         \* a function called on its own: its arguments and its result

(* what only the re-run and the direct calls change *)
aux == <<prior_run, twin_call, fn_call>>

vars == <<policy_name, num_twins, registry, history, buffers, job_counter,
          bandit, step_id, pc, now, handle, loc, gw_calls, gw_results, env,
          aux>>

----------------------------------------------------------------------------
(* Bounds of the model *)

MaxSteps == 1
MaxTwins == 2
WindowN == 2
MaxFetches == 2

(* Instants the clock is observed at: around 90% of each deadline, around
   each deadline, and past the queue limit. *)
TimePoints == {0, 18000, 18001, 20000, 20001, 22501, 70000}

(* Telemetry samples (x1, x2, x3): health 1.0 / 0.25 / 0.10, x3 on and off
   the 0.1 ladder. *)
TelemetrySamples ==
    { [x1 |-> 0,   x2 |-> 0, x3 |-> 20],
      [x1 |-> 0,   x2 |-> 0, x3 |-> 25],
      [x1 |-> 500, x2 |-> 0, x3 |-> 20],
      [x1 |-> 600, x2 |-> 0, x3 |-> 20] }

(* Samples of the gateway's random draws *)
GammaSamples == {500, 58000}        \* rng.gamma(2, 6000), ms
ExecJitterSamples == {0}            \* rng.normal(scale=30), ms
FailDraws == {0, 50000}             \* rng.random(), 1e-5
NoiseJitterSamples == {0, 7000}     \* rng.normal(scale=0.005), 1e-5
OnesSamples == {0, 64}              \* number of "1" in the 64-bit string
ObjDraws == {50}                    \* rng.random(), 1e-2

(* The inputs of run_sim(steps, ...) and of the clock and the generators.
   force_fail and deadline are the two test configurations of the gateway
   and of the SLA: a failure probability forced to 1.0, and a deadline_ms
   that replaces the one _make_sla computes (<<>> leaves it as computed). *)
WideEnv ==
    [steps |-> MaxSteps, times |-> TimePoints, telemetry |-> TelemetrySamples,
     gamma |-> GammaSamples, exec_jitter |-> ExecJitterSamples,
     fail |-> FailDraws, noise_jitter |-> NoiseJitterSamples,
     ones |-> OnesSamples, obj |-> ObjDraws,
     force_fail |-> FALSE, deadline |-> <<>>]

----------------------------------------------------------------------------
(* Helpers *)

None == <<>>
Some(v) == <<v>>
Abs(x) == IF x < 0 THEN -x ELSE x
Clip(x, lo, hi) == IF x < lo THEN lo ELSE IF x > hi THEN hi ELSE x
Min(a, b) == IF a < b THEN a ELSE b
Max(a, b) == IF a > b THEN a ELSE b

RECURSIVE SqrtSearch(_, _, _)
SqrtSearch(n, lo, hi) ==
    IF lo >= hi THEN lo
    ELSE LET mid == (lo + hi + 1) \div 2
         IN IF mid * mid <= n THEN SqrtSearch(n, mid, hi)
            ELSE SqrtSearch(n, lo, mid - 1)
ISqrt(n) == SqrtSearch(n, 0, 40000)

RECURSIVE SumSeq(_)
SumSeq(s) == IF s = <<>> THEN 0 ELSE Head(s) + SumSeq(Tail(s))

Terminal == {"SUCCEEDED", "FAILED", "CANCELLED"}

----------------------------------------------------------------------------
(* TwinCORE *)

Twins == 1 .. num_twins

create_twin(tid) ==
    [twin_id |-> tid, x1 |-> 0, x2 |-> 0, x3 |-> 0, health |-> 10000,
     last_action |-> None]

(* Health without the clip *)
MutHealthUnclipped(x1, x2) == 10000 - 15 * Abs(x1) - 10 * Abs(x2)

(* health = clip(1.0 - 0.15*|x1| - 0.10*|x2|, 0, 1) *)
Health(x1, x2) == Clip(10000 - 15 * Abs(x1) - 10 * Abs(x2), 0, 10000)

update_from_telemetry(st, tel) ==
    [st EXCEPT !.x1 = tel.x1, !.x2 = tel.x2, !.x3 = tel.x3,
               !.health = Health(tel.x1, tel.x2)]

(* x *= (1 - 0.02*damp), damp in hundredths *)
Damped(x, damp) == (x * (10000 - 2 * damp)) \div 10000

(* apply_action that recomputes health from the damped x1 and x2 *)
MutApplyActionRefreshesHealth(st, action) ==
    LET damp == IF action.damp = None THEN 0 ELSE action.damp[1]
        y1 == IF damp # 0 THEN Damped(st.x1, damp) ELSE st.x1
        y2 == IF damp # 0 THEN Damped(st.x2, damp) ELSE st.x2
    IN [st EXCEPT !.last_action = Some(action), !.x1 = y1, !.x2 = y2,
                  !.health = Health(y1, y2)]

apply_action(st, action) ==
    LET damp == IF action.damp = None THEN 0 ELSE action.damp[1]
    IN [st EXCEPT !.last_action = Some(action),
                  !.x1 = IF damp # 0 THEN Damped(st.x1, damp) ELSE st.x1,
                  !.x2 = IF damp # 0 THEN Damped(st.x2, damp) ELSE st.x2]

----------------------------------------------------------------------------
(* FeatureExtractor *)

(* PushWindow that evicts with buf.pop(): the newest sample goes *)
MutPushWindowDropsNewest(buf, sample) ==
    LET b == Append(buf, sample)
    IN IF Len(b) > WindowN THEN SubSeq(b, 1, WindowN) ELSE b

(* buf.append(sample); if len(buf) > window: buf.pop(0) *)
PushWindow(buf, sample) ==
    LET b == Append(buf, sample)
    IN IF Len(b) > WindowN THEN Tail(b) ELSE b

Column(buf, k) == [i \in 1 .. Len(buf) |-> buf[i][k]]

(* arr.mean(axis=0), rounded down to a hundredth *)
Mean(col) == SumSeq(col) \div Len(col)

(* arr.std(axis=0) + 1e-6: the population standard deviation, rounded down
   to a hundredth; the 1e-6 floor is below that resolution *)
Std(col) ==
    LET n == Len(col)
        sq == SumSeq([i \in 1 .. n |-> col[i] * col[i]])
        s == SumSeq(col)
    IN ISqrt(n * sq - s * s) \div n

(* np.isclose(x3, np.round(x3 * 10) / 10, atol=0.03) *)
OnLadder(x3) ==
    LET r == Abs(x3) % 10
    IN Min(r, 10 - r) <= 3

CountOnLadder(col) == Cardinality({i \in 1 .. Len(col) : OnLadder(col[i])})

(* The feature map; discrete_ratio is kept as the fraction dr_num / dr_den *)
Features(buf, st) ==
    [mu1 |-> Mean(Column(buf, 1)), mu2 |-> Mean(Column(buf, 2)),
     mu3 |-> Mean(Column(buf, 3)),
     sig1 |-> Std(Column(buf, 1)), sig2 |-> Std(Column(buf, 2)),
     sig3 |-> Std(Column(buf, 3)),
     dr_num |-> CountOnLadder(Column(buf, 3)), dr_den |-> Len(buf),
     health |-> st.health]

(* build_qubo_stub with one term per variable *)
MutStubPerVariable(features, n_vars) ==
    [linear |-> n_vars, quadratic |-> n_vars]

(* min(12, n_vars) linear terms and min(20, n_vars) quadratic terms *)
build_qubo_stub(features, n_vars) ==
    [linear |-> Min(12, n_vars), quadratic |-> Min(20, n_vars)]

----------------------------------------------------------------------------
(* ClassicalSolver *)

(* ClassicalSolve without the clip of damp *)
MutClassicalSolveUnclipped(st, features) ==
    LET mag == Abs(st.x1) + Abs(st.x2)
        damp == mag * 2
    IN [action |-> [damp |-> Some(damp), mode |-> "baseline_classical"],
        obj |-> -(120 * mag + 30 * Abs(st.x3) + 5 * damp),
        conf |-> Clip(8500 - 10 * features.sig1, 4000, 9000)]

ClassicalSolve(st, features) ==
    LET mag == Abs(st.x1) + Abs(st.x2)
        damp == Clip(mag * 2, 0, 500)
    IN [action |-> [damp |-> Some(damp), mode |-> "baseline_classical"],
        obj |-> -(120 * mag + 30 * Abs(st.x3) + 5 * damp),
        conf |-> Clip(8500 - 10 * features.sig1, 4000, 9000)]

----------------------------------------------------------------------------
(* SimulatedCloudQPU *)

NoHandle == None

(* Submit that issues the counter's old value as the job id *)
MutSubmitStaleId(qre, t, gamma, jitter, counter) ==
    LET n_vars == qre.variables
        queue_ms == Clip(gamma, 1000, 90000) + 2 * n_vars
        exec_ms == Clip(150 + (2 * qre.shots) \div 100 + 120 * qre.depth + jitter,
                        150, 4000)
    IN [job_id |-> counter, submit_ts |-> t,
        ready_ts |-> t + queue_ms + exec_ms, qre |-> qre, status |-> "PENDING"]

(* submit: a fresh job id, queue and execution time drawn, status PENDING *)
Submit(qre, t, gamma, jitter, counter) ==
    LET n_vars == qre.variables
        queue_ms == Clip(gamma, 1000, 90000) + 2 * n_vars
        exec_ms == Clip(150 + (2 * qre.shots) \div 100 + 120 * qre.depth + jitter,
                        150, 4000)
    IN [job_id |-> counter + 1, submit_ts |-> t,
        ready_ts |-> t + queue_ms + exec_ms, qre |-> qre, status |-> "PENDING"]

(* Poll that reports SUCCEEDED from the ready time on *)
MutPollCompletes(h, t) ==
    IF h.status \in {"SUCCEEDED", "FAILED", "CANCELLED"} THEN h.status
    ELSE IF t < h.submit_ts + 200 THEN "PENDING"
    ELSE IF t < h.ready_ts THEN "RUNNING"
    ELSE "SUCCEEDED"

(* poll: the status the handle has after poll at time t (poll returns it) *)
Poll(h, t) ==
    IF h.status \in Terminal THEN h.status
    ELSE IF t < h.submit_ts + 200 THEN "PENDING"
    ELSE IF t < h.ready_ts THEN "RUNNING"
    ELSE "RUNNING"

EmptySolution ==
    [best_bitstring |-> None, decoded_decision |-> None,
     objective_value |-> None, confidence |-> None]

EmptyDiagnostics ==
    [shots |-> None, depth |-> None, noise_proxy |-> None, cost_eur |-> None]

(* base_fail = 0.03 + 0.00002*n_vars (+0.03 HIGH, +0.06 CRITICAL) *)
BaseFail(n_vars, risk) ==
    3000 + 2 * n_vars
    + (IF risk = "HIGH" THEN 3000 ELSE IF risk = "CRITICAL" THEN 6000 ELSE 0)

(* base_fail, or 1.0 when the gateway is configured to fail every job *)
FailProb(n_vars, risk) ==
    IF env.force_fail THEN 100000 ELSE BaseFail(n_vars, risk)

(* clip(0.03 + 0.02*depth + 0.00001*n_vars + jitter, 0, 0.25) *)
NoiseProxy(depth, n_vars, jitter) ==
    Clip(3000 + 2000 * depth + n_vars + jitter, 0, 25000)

(* clip(0.25 + 0.0002*shots + 0.003*depth + 0.00001*n_vars, 0.1, 10.0) *)
CostProxy(shots, depth, n_vars) ==
    Clip(25000 + 20 * shots + 300 * depth + n_vars, 10000, 1000000)

(* clip(0.5 + 5.0*ones/max(1, len), 0, 5) *)
GwDamp(ones, len) == Clip(50 + (500 * ones) \div Max(1, len), 0, 500)

(* -(0.9 + 1.5*noise) * (0.8 + u) *)
GwObjective(noise, u) == -(((90000 + (3 * noise) \div 2) * (80 + u)) \div 1000)

(* clip(0.80 - 1.8*noise, 0.2, 0.85) *)
GwConfidence(noise) == Clip(8000 - (18 * noise) \div 100, 2000, 8500)

(* get_result before handle.ready_ts: lines 349-359 *)
PendingResult(h) ==
    [qr |-> [step_id |-> h.qre.step_id,
             backend |-> [queue_ms |-> None, exec_ms |-> None],
             status |-> "PENDING", solution |-> EmptySolution,
             diagnostics |-> EmptyDiagnostics,
             error |-> Some("Result requested before ready")],
     status |-> h.status]

(* get_result from handle.ready_ts on, with the draws u_fail, jitter, ones,
   u_obj: lines 361-423 *)
TerminalResult(h, u_fail, jitter, ones, u_obj) ==
    LET qre == h.qre
        n_vars == qre.variables
        failed == u_fail < FailProb(n_vars, qre.sla.risk_class)
        noise == NoiseProxy(qre.depth, n_vars, jitter)
        cost == CostProxy(qre.shots, qre.depth, n_vars)
        len == Min(64, n_vars)
        \* int((ready_ts - submit_ts) * 1000), taken without float rounding
        queue == Some(h.ready_ts - h.submit_ts)
    IN IF failed
       THEN [qr |-> [step_id |-> qre.step_id,
                     backend |-> [queue_ms |-> queue, exec_ms |-> None],
                     status |-> "FAILED", solution |-> EmptySolution,
                     diagnostics |-> [EmptyDiagnostics EXCEPT
                                         !.noise_proxy = Some(noise),
                                         !.cost_eur = Some(cost)],
                     error |-> Some("Simulated QPU job failure")],
             status |-> "FAILED"]
       ELSE [qr |-> [step_id |-> qre.step_id,
                     backend |-> [queue_ms |-> queue,
                                  exec_ms |-> Some(150 + (2 * qre.shots) \div 100
                                                   + 120 * qre.depth)],
                     status |-> "SUCCEEDED",
                     solution |->
                         [best_bitstring |-> Some(Min(ones, len)),
                          decoded_decision |->
                              Some([damp |-> Some(GwDamp(Min(ones, len), len)),
                                    mode |-> "quantum_candidate"]),
                          objective_value |-> Some(GwObjective(noise, u_obj)),
                          confidence |-> Some(GwConfidence(noise))],
                     diagnostics |-> [shots |-> Some(qre.shots),
                                      depth |-> Some(qre.depth),
                                      noise_proxy |-> Some(noise),
                                      cost_eur |-> Some(cost)],
                     error |-> None],
             status |-> "SUCCEEDED"]

(* GetResult with the not-ready branch resetting handle.status to PENDING *)
MutGetResultResetsStatus(h, t, u_fail, jitter, ones, u_obj) ==
    IF t < h.ready_ts THEN [PendingResult(h) EXCEPT !.status = "PENDING"]
    ELSE TerminalResult(h, u_fail, jitter, ones, u_obj)

(* get_result at time t: the result returned (qr) and the status the handle
   is left with *)
GetResult(h, t, u_fail, jitter, ones, u_obj) ==
    IF t < h.ready_ts THEN PendingResult(h)
    ELSE TerminalResult(h, u_fail, jitter, ones, u_obj)

----------------------------------------------------------------------------
(* Governance *)

(* Breach measured against 90% of the deadline, as the poll loop's guard *)
MutBreachAtCancelLimit(elapsed_ms, deadline_ms) ==
    elapsed_ms > (90 * deadline_ms) \div 100

(* Breach that counts an elapsed time equal to the deadline *)
MutBreachAtDeadline(elapsed_ms, deadline_ms) == elapsed_ms >= deadline_ms

(* LatencyController.breach *)
Breach(elapsed_ms, deadline_ms) == elapsed_ms > deadline_ms

(* FallbackReasons as an if / elif chain: the first reason only *)
MutFallbackReasonsFirstOnly(status, queue_ms, cost_eur, noise_proxy, sla) ==
    IF status \in {"FAILED", "CANCELLED"} THEN <<"JOB_FAILED">>
    ELSE IF queue_ms # <<>> /\ queue_ms[1] > sla.max_queue_ms
    THEN <<"QUEUE_TIMEOUT">>
    ELSE IF cost_eur # <<>> /\ cost_eur[1] > sla.max_cost_eur
    THEN <<"COST_BREACH">>
    ELSE IF noise_proxy # <<>> /\ noise_proxy[1] > 15000
    THEN <<"NOISE_TOO_HIGH">>
    ELSE <<>>

(* FallbackManager.should_fallback *)
FallbackReasons(status, queue_ms, cost_eur, noise_proxy, sla) ==
    (IF status \in {"FAILED", "CANCELLED"} THEN <<"JOB_FAILED">> ELSE <<>>)
    \o (IF queue_ms # None /\ queue_ms[1] > sla.max_queue_ms
        THEN <<"QUEUE_TIMEOUT">> ELSE <<>>)
    \o (IF cost_eur # None /\ cost_eur[1] > sla.max_cost_eur
        THEN <<"COST_BREACH">> ELSE <<>>)
    \o (IF noise_proxy # None /\ noise_proxy[1] > 15000
        THEN <<"NOISE_TOO_HIGH">> ELSE <<>>)

ShouldFallback(status, queue_ms, cost_eur, noise_proxy, sla) ==
    LET reasons == FallbackReasons(status, queue_ms, cost_eur, noise_proxy, sla)
    IN [fallback |-> Len(reasons) > 0, reasons |-> reasons]

(* SolutionReasons without the bounds check on damp *)
MutSolutionReasonsNoBounds(sol) ==
    (IF sol.decoded_decision = <<>> THEN <<"MISSING_DECISION">> ELSE <<>>)
    \o (IF sol.objective_value = <<>> THEN <<"MISSING_OBJECTIVE">> ELSE <<>>)

(* ResultValidator.validate *)
SolutionReasons(sol) ==
    (IF sol.decoded_decision = None THEN <<"MISSING_DECISION">>
     ELSE LET damp == sol.decoded_decision[1].damp
          IN IF damp = None \/ ~(0 <= damp[1] /\ damp[1] <= 500)
             THEN <<"DECISION_OUT_OF_BOUNDS">> ELSE <<>>)
    \o (IF sol.objective_value = None THEN <<"MISSING_OBJECTIVE">> ELSE <<>>)

(* Validate that puts the umbrella code RESULT_INVALID among its reasons *)
MutValidateNamesInvalid(qr) ==
    IF qr.status # "SUCCEEDED"
    THEN [valid |-> FALSE, reasons |-> <<"RESULT_INVALID", "NOT_SUCCEEDED">>]
    ELSE LET reasons == SolutionReasons(qr.solution)
         IN [valid |-> Len(reasons) = 0, reasons |-> reasons]

(* Validate failing open: a result that did not succeed passes *)
MutValidateFailOpen(qr) ==
    IF qr.status # "SUCCEEDED" THEN [valid |-> TRUE, reasons |-> <<>>]
    ELSE LET reasons == SolutionReasons(qr.solution)
         IN [valid |-> Len(reasons) = 0, reasons |-> reasons]

Validate(qr) ==
    IF qr.status # "SUCCEEDED"
    THEN [valid |-> FALSE, reasons |-> <<"NOT_SUCCEEDED">>]
    ELSE LET reasons == SolutionReasons(qr.solution)
         IN [valid |-> Len(reasons) = 0, reasons |-> reasons]

----------------------------------------------------------------------------
(* Routing policies *)

DiscreteAtLeast60(features) == 10 * features.dr_num >= 6 * features.dr_den

(* RuleChoose without the health gate *)
MutRuleNoHealthGate(features, sla) ==
    IF sla.risk_class = "CRITICAL" THEN "CLASSICAL"
    ELSE IF 10 * features.dr_num >= 6 * features.dr_den
            /\ sla.deadline_ms >= 15000
         THEN "QUANTUM"
    ELSE "CLASSICAL"

(* SimpleRulePolicy.choose *)
RuleChoose(features, sla) ==
    IF sla.risk_class = "CRITICAL" THEN "CLASSICAL"
    ELSE IF features.health < 2500 THEN "CLASSICAL"
    ELSE IF DiscreteAtLeast60(features) /\ sla.deadline_ms >= 15000
         THEN "QUANTUM"
    ELSE "CLASSICAL"

(* BanditChoose without the CRITICAL gate *)
MutBanditNoGate(features, sla, explore, coin, score_pos) ==
    IF explore THEN (IF coin THEN "QUANTUM" ELSE "CLASSICAL")
    ELSE IF score_pos THEN "QUANTUM" ELSE "CLASSICAL"

(* ContextualBanditPolicy.choose.  explore is rng.random() < eps, coin is the
   second rng.random() < 0.5, score_pos is w @ phi + b > 0: the weights start
   from seeded normal draws and move by tanh gradient steps, so the sign of
   the score is left open. *)
BanditChoose(features, sla, explore, coin, score_pos) ==
    IF sla.risk_class = "CRITICAL" THEN "CLASSICAL"
    ELSE IF explore THEN (IF coin THEN "QUANTUM" ELSE "CLASSICAL")
    ELSE IF score_pos THEN "QUANTUM" ELSE "CLASSICAL"

(* BanditUpdate that learns from positive rewards only *)
MutUpdateOnGain(b, reward) ==
    IF reward > 0 THEN [updates |-> b.updates + 1, last_y |-> 1] ELSE b

(* ContextualBanditPolicy.update: one gradient step towards
   y = 1 if reward > 0 else -1; the update count and the target are kept *)
BanditUpdate(b, reward) ==
    [updates |-> b.updates + 1, last_y |-> IF reward > 0 THEN 1 ELSE -1]

----------------------------------------------------------------------------
(* HybridOrchestrator *)

(* _risk_classify with inclusive thresholds *)
MutRiskClassifyInclusive(features) ==
    IF features.health <= 1500 THEN "CRITICAL"
    ELSE IF features.health <= 3500 THEN "HIGH"
    ELSE IF features.health <= 6000 THEN "MEDIUM"
    ELSE "LOW"

_risk_classify(features) ==
    IF features.health < 1500 THEN "CRITICAL"
    ELSE IF features.health < 3500 THEN "HIGH"
    ELSE IF features.health < 6000 THEN "MEDIUM"
    ELSE "LOW"

_make_sla(risk) ==
    [deadline_ms |-> IF risk # "HIGH" THEN 20000 ELSE 25000,
     max_queue_ms |-> 60000, max_cost_eur |-> 300000, risk_class |-> risk]

(* the SLA of the step: _make_sla, under the configured deadline if any *)
MakeSla(risk) ==
    IF env.deadline = None THEN _make_sla(risk)
    ELSE [_make_sla(risk) EXCEPT !.deadline_ms = env.deadline[1]]

(* n_vars = int(200 + 1400 * discrete_ratio) *)
NVars(features) == 200 + (1400 * features.dr_num) \div features.dr_den

_build_qre(st, features, sla, sid) ==
    LET n_vars == NVars(features)
    IN [twin_id |-> st.twin_id, variables |-> n_vars,
        qubo |-> build_qubo_stub(features, n_vars), sla |-> sla,
        shots |-> 2000, depth |-> 3, step_id |-> sid]

decide_route(features, sla, explore, coin, score_pos) ==
    IF policy_name = "bandit"
    THEN BanditChoose(features, sla, explore, coin, score_pos)
    ELSE RuleChoose(features, sla)

(* int(0.90 * sla.deadline_ms) *)
CancelLimit(deadline_ms) == (90 * deadline_ms) \div 100

(* DeadlineClose with the fraction lost: elapsed_ms > 90 * deadline_ms *)
MutDeadlineNever(elapsed_ms, deadline_ms) == elapsed_ms > 90 * deadline_ms

(* the poll loop's guard: elapsed_ms > int(0.90 * sla.deadline_ms) *)
DeadlineClose(elapsed_ms, deadline_ms) == elapsed_ms > CancelLimit(deadline_ms)

(* The clock.  step reads it at t0 (now = 0), in submit, in every poll, in
   the loop guard, in get_result and for the final elapsed_ms.  It is read
   as `now` in the straight-line code and moves at the two places where the
   outcome depends on how far it moved: across the sleep of the poll loop
   (any instant at least 20 ms later, so the loop can end at any instant
   past the limit and get_result can find the job ready or not) and before the final
   elapsed_ms (any instant from `now` on).  A record depends on the clock
   only through the readiness of the job at get_result and through the
   final elapsed_ms, so no record is lost by this. *)

(* a later reading of the clock *)
Advance(t) == {u \in env.times : u >= t}

(* time.sleep(0.02) suspends for at least 20 ms *)
SleepMs == 20

(* time.sleep(0.02): the clock has moved on by at least SleepMs when the
   loop polls again *)
Sleep(t) == {u \in env.times : u >= t + SleepMs}

(* Adopt reading a key the solution does not have: confidence 0.5 *)
MutAdoptDefaultConfidence(qr) ==
    [action |-> qr.solution.decoded_decision,
     obj |-> qr.solution.objective_value[1], conf |-> 5000]

(* the quantum decision, objective and confidence step adopts: lines 677-679 *)
Adopt(qr) ==
    [action |-> qr.solution.decoded_decision,
     obj |-> qr.solution.objective_value[1],
     conf |-> IF qr.solution.confidence = None THEN 5000
              ELSE qr.solution.confidence[1]]

(* RevertToClassical that looks at the validator alone *)
MutRevertOnInvalidOnly(fallback, valid) == ~valid

(* `if fallback or not valid` *)
RevertToClassical(fallback, valid) == fallback \/ ~valid

(* Downgrade that leaves a QUANTUM route standing under a breach *)
MutDowngradeNever(final_route, breach) == final_route

(* Downgrade that takes every route to FALLBACK_CLASSICAL under a breach *)
MutDowngradeAnyRoute(final_route, breach) ==
    IF breach THEN "FALLBACK_CLASSICAL" ELSE final_route

(* Downgrade that does not look at the breach *)
MutDowngradeAlways(final_route, breach) ==
    IF final_route = "QUANTUM" THEN "FALLBACK_CLASSICAL" ELSE final_route

(* `if final_route == "QUANTUM"` under a latency breach *)
Downgrade(final_route, breach) ==
    IF breach /\ final_route = "QUANTUM" THEN "FALLBACK_CLASSICAL" ELSE final_route

(* Snapshot that is never taken: the audit field stays None *)
MutSnapshotLost(x) == None

(* json.dumps(asdict(x)): the snapshot kept in the record *)
Snapshot(x) == Some(x)

(* Reward that takes the objective as a cost: its sign is turned *)
MutRewardOfCost(obj, elapsed_ms, final_route) ==
    -obj - 8 * elapsed_ms - (IF final_route = "FALLBACK_CLASSICAL" THEN 2000 ELSE 0)

(* reward = obj - 0.0008*elapsed_ms (- 0.2 on FALLBACK_CLASSICAL) *)
Reward(obj, elapsed_ms, final_route) ==
    obj - 8 * elapsed_ms - (IF final_route = "FALLBACK_CLASSICAL" THEN 2000 ELSE 0)

NoLoc ==
    [twin |-> 0, st |-> create_twin(0), features |-> None, sla |-> None,
     route |-> "CLASSICAL", action |-> None, obj |-> 0, conf |-> 0,
     final_route |-> "CLASSICAL", fallback_reasons |-> <<>>,
     qre_json |-> None, result_json |-> None, qpu_queue_ms |-> None,
     noise_proxy |-> None, cost_eur |-> None]

(* no function called on its own *)
NoFn == [fn |-> "none", args |-> <<>>, out |-> <<>>]

(* no direct TwinCORE call made yet *)
NoCall == [op |-> "none", twin_id |-> 0, raised |-> FALSE, n |-> 0]

NoCalls == [cancelled |-> FALSE, after_cancel |-> <<>>]
NoResults == [n |-> 0, first |-> None, last |-> None, before |-> "NONE"]

(* gw_results after get_result returned qr at time t for handle h *)
Returned(h, t, qr) ==
    [n |-> gw_results.n + 1,
     first |-> IF t >= h.ready_ts /\ gw_results.first = None
               THEN Some(qr) ELSE gw_results.first,
     last |-> Some(qr),
     before |-> h.status]

Init ==
    /\ policy_name \in {"rule", "bandit"}
    /\ num_twins \in 1 .. MaxTwins
    /\ registry = [t \in 1 .. num_twins |-> create_twin(t)]
    /\ history = <<>>
    /\ buffers = [t \in 1 .. num_twins |-> <<>>]
    /\ job_counter = 0
    /\ bandit = [updates |-> 0, last_y |-> 0]
    /\ step_id = 0
    /\ pc = "idle"
    /\ now = 0
    /\ handle = NoHandle
    /\ loc = NoLoc
    /\ gw_calls = NoCalls
    /\ gw_results = NoResults
    /\ env = WideEnv
    /\ prior_run = None
    /\ twin_call = NoCall
    /\ fn_call = NoFn

(* NextStepId that stops counting at 2 *)
MutStepIdSticks(s) == IF s < 2 THEN s + 1 ELSE s

(* step_id += 1 *)
NextStepId(s) == s + 1

(* run_sim's loop body up to the call of step, and step up to the submit *)
BeginStep ==
    /\ pc = "idle"
    /\ step_id < env.steps
    /\ LET sid == NextStepId(step_id)
           tid == (sid % num_twins) + 1
       IN \E tel \in env.telemetry, explore \in BOOLEAN, coin \in BOOLEAN,
             score_pos \in BOOLEAN :
            LET st == update_from_telemetry(registry[tid], tel)
                buf == PushWindow(buffers[tid], <<st.x1, st.x2, st.x3>>)
                features == Features(buf, st)
                risk == _risk_classify(features)
                sla == MakeSla(risk)
                route == decide_route(features, sla, explore, coin, score_pos)
                cs == ClassicalSolve(st, features)
                qre == _build_qre(st, features, sla, sid)
                frame == [NoLoc EXCEPT !.twin = tid, !.st = st,
                                       !.features = Some(features),
                                       !.sla = Some(sla), !.route = route,
                                       !.action = Some(cs.action),
                                       !.obj = cs.obj, !.conf = cs.conf]
            IN /\ step_id' = sid
               /\ registry' = [registry EXCEPT ![tid] = st]
               /\ buffers' = [buffers EXCEPT ![tid] = buf]
               /\ gw_calls' = NoCalls
               /\ gw_results' = NoResults
               /\ IF route = "QUANTUM"
                  THEN \E gamma \in env.gamma, jitter \in env.exec_jitter :
                         /\ handle' = Submit(qre, 0, gamma, jitter, job_counter)
                         /\ job_counter' = job_counter + 1
                         /\ now' = 0
                         /\ loc' = [frame EXCEPT !.qre_json = Snapshot(qre)]
                         /\ pc' = "poll"
                  ELSE /\ handle' = NoHandle
                       /\ job_counter' = job_counter
                       /\ now' = 0
                       /\ loc' = frame
                       /\ pc' = "finish"
    /\ UNCHANGED <<policy_name, num_twins, history, bandit, env, aux>>

(* one iteration of the poll loop: poll, the deadline guard, the sleep *)
PollIter ==
    /\ pc = "poll"
    /\ LET status == Poll(handle, now)
           polled == [handle EXCEPT !.status = status]
           calls == IF gw_calls.cancelled
                    THEN [gw_calls EXCEPT !.after_cancel = Append(@, "poll")]
                    ELSE gw_calls
       IN IF status \in Terminal
          THEN /\ handle' = polled
               /\ now' = now
               /\ gw_calls' = calls
               /\ pc' = "fetch"
          ELSE IF DeadlineClose(now, loc.sla[1].deadline_ms)
          THEN /\ handle' = [polled EXCEPT !.status = "CANCELLED"]
               /\ now' = now
               /\ gw_calls' = [calls EXCEPT !.cancelled = TRUE]
               /\ pc' = "fetch"
          ELSE \E t \in Sleep(now) :
                 /\ handle' = polled
                 /\ now' = t
                 /\ gw_calls' = calls
                 /\ pc' = "poll"
    /\ UNCHANGED <<policy_name, num_twins, registry, history, buffers,
                   job_counter, bandit, step_id, loc, gw_results, env, aux>>

(* get_result, the governance checks and the choice of the route *)
FetchResult ==
    /\ pc = "fetch"
    /\ \E u_fail \in env.fail, jitter \in env.noise_jitter,
          ones \in env.ones, u_obj \in env.obj :
         LET res == GetResult(handle, now, u_fail, jitter, ones, u_obj)
             qr == res.qr
             sla == loc.sla[1]
             qpu_queue_ms == qr.backend.queue_ms
             noise_proxy == qr.diagnostics.noise_proxy
             cost_eur == qr.diagnostics.cost_eur
             v == Validate(qr)
             f == ShouldFallback(qr.status, qpu_queue_ms, cost_eur, noise_proxy, sla)
             reasons == f.reasons
                        \o (IF ~v.valid THEN <<"RESULT_INVALID">> ELSE <<>>)
                        \o (IF ~v.valid THEN v.reasons ELSE <<>>)
             cs == ClassicalSolve(loc.st, loc.features[1])
             frame == [loc EXCEPT !.result_json = Snapshot(qr),
                                  !.qpu_queue_ms = qpu_queue_ms,
                                  !.noise_proxy = noise_proxy,
                                  !.cost_eur = cost_eur,
                                  !.fallback_reasons = reasons]
         IN /\ handle' = [handle EXCEPT !.status = res.status]
            /\ now' = now
            /\ gw_calls' = IF gw_calls.cancelled
                           THEN [gw_calls EXCEPT
                                    !.after_cancel = Append(@, "get_result")]
                           ELSE gw_calls
            /\ gw_results' = Returned(handle, now, qr)
            /\ IF RevertToClassical(f.fallback, v.valid)
               THEN /\ loc' = [frame EXCEPT !.final_route = "FALLBACK_CLASSICAL",
                                            !.action = Some(cs.action),
                                            !.obj = cs.obj, !.conf = cs.conf]
                    /\ pc' = "finish"
               ELSE IF qr.solution.decoded_decision = None
                       \/ qr.solution.objective_value = None
               THEN \* qr.solution["decoded_decision"] raises KeyError
                    /\ loc' = [frame EXCEPT !.final_route = "QUANTUM"]
                    /\ pc' = "raised"
               ELSE /\ loc' = [frame EXCEPT
                                 !.final_route = "QUANTUM",
                                 !.action = Adopt(qr).action,
                                 !.obj = Adopt(qr).obj,
                                 !.conf = Adopt(qr).conf]
                    /\ pc' = "finish"
    /\ UNCHANGED <<policy_name, num_twins, registry, history, buffers,
                   job_counter, bandit, step_id, env, aux>>

(* ExecRecord that leaves the result snapshot out *)
MutExecRecordNoResult(sid, frame, route, elapsed_ms, breach, reasons) ==
    [step_id |-> sid, twin_id |-> frame.twin, route |-> route,
     policy |-> policy_name, qpu_queue_ms |-> frame.qpu_queue_ms,
     exec_ms |-> elapsed_ms, latency_breach |-> breach,
     fallback_reasons |-> reasons, objective_value |-> frame.obj,
     confidence |-> frame.conf, noise_proxy |-> frame.noise_proxy,
     cost_eur |-> frame.cost_eur, qre_json |-> frame.qre_json,
     result_json |-> None]

(* append_record that keeps the latest record only *)
MutAppendRecordKeepsLatest(h, rec) == <<rec>>

(* TwinCORE.append_record *)
append_record(h, rec) == Append(h, rec)

ExecRecord(sid, frame, route, elapsed_ms, breach, reasons) ==
    [step_id |-> sid, twin_id |-> frame.twin, route |-> route,
     policy |-> policy_name, qpu_queue_ms |-> frame.qpu_queue_ms,
     exec_ms |-> elapsed_ms, latency_breach |-> breach,
     fallback_reasons |-> reasons, objective_value |-> frame.obj,
     confidence |-> frame.conf, noise_proxy |-> frame.noise_proxy,
     cost_eur |-> frame.cost_eur, qre_json |-> frame.qre_json,
     result_json |-> frame.result_json]

(* the latency check, the bandit update and the record; then run_sim applies
   the action and appends the record *)
FinishStep ==
    /\ pc = "finish"
    /\ \E t \in Advance(now) :
         LET elapsed_ms == t
             sla == loc.sla[1]
             breach == Breach(elapsed_ms, sla.deadline_ms)
             reasons == IF breach THEN loc.fallback_reasons \o <<"SLA_BREACH">>
                        ELSE loc.fallback_reasons
             final_route == Downgrade(loc.final_route, breach)
             cs == ClassicalSolve(loc.st, loc.features[1])
             frame == IF final_route # loc.final_route
                      THEN [loc EXCEPT !.final_route = final_route,
                                       !.action = Some(cs.action),
                                       !.obj = cs.obj, !.conf = cs.conf,
                                       !.fallback_reasons = reasons]
                      ELSE [loc EXCEPT !.fallback_reasons = reasons]
             rec == ExecRecord(step_id, frame, final_route, elapsed_ms, breach,
                               reasons)
         IN /\ now' = t
            /\ loc' = frame
            /\ bandit' = IF policy_name = "bandit"
                         THEN BanditUpdate(bandit,
                                           Reward(frame.obj, elapsed_ms, final_route))
                         ELSE bandit
            /\ registry' = [registry EXCEPT
                              ![loc.twin] = apply_action(@, frame.action[1])]
            /\ history' = append_record(history, rec)
    /\ handle' = NoHandle
    /\ pc' = "idle"
    /\ UNCHANGED <<policy_name, num_twins, buffers, job_counter, step_id,
                   gw_calls, gw_results, env, aux>>

Next == BeginStep \/ PollIter \/ FetchResult \/ FinishStep

Spec == Init /\ [][Next]_vars

(* The poll loop resumes after each sleep, and the straight-line code after
   the loop runs to the end of the step *)
LiveSpec ==
    Spec /\ WF_vars(PollIter) /\ WF_vars(FetchResult) /\ WF_vars(FinishStep)

----------------------------------------------------------------------------
(* The gateway driven directly through submit / poll / get_result, and a
   caller that marks the handle CANCELLED as step does *)

GwInit ==
    /\ policy_name = "rule"
    /\ num_twins = 1
    /\ registry = [t \in 1 .. 1 |-> create_twin(t)]
    /\ history = <<>>
    /\ buffers = [t \in 1 .. 1 |-> <<>>]
    /\ job_counter = 0
    /\ bandit = [updates |-> 0, last_y |-> 0]
    /\ step_id = 0
    /\ pc = "gw"
    /\ now = 0
    /\ handle = NoHandle
    /\ loc = NoLoc
    /\ gw_calls = NoCalls
    /\ gw_results = NoResults
    /\ env = WideEnv
    /\ prior_run = None
    /\ twin_call = NoCall
    /\ fn_call = NoFn

GwSubmit ==
    /\ pc = "gw"
    /\ handle = NoHandle
    /\ \E tel \in env.telemetry, gamma \in env.gamma, jitter \in env.exec_jitter :
         LET st == update_from_telemetry(create_twin(1), tel)
             features == Features(<<(<<st.x1, st.x2, st.x3>>)>>, st)
             sla == _make_sla(_risk_classify(features))
             qre == _build_qre(st, features, sla, 1)
         IN /\ handle' = Submit(qre, now, gamma, jitter, job_counter)
            /\ job_counter' = job_counter + 1
    /\ UNCHANGED <<policy_name, num_twins, registry, history, buffers, bandit,
                   step_id, pc, now, loc, gw_calls, gw_results, env, aux>>

GwPoll ==
    /\ pc = "gw"
    /\ handle # NoHandle
    /\ \E t \in Advance(now) :
         /\ handle' = [handle EXCEPT !.status = Poll(handle, t)]
         /\ now' = t
    /\ UNCHANGED <<policy_name, num_twins, registry, history, buffers,
                   job_counter, bandit, step_id, pc, loc, gw_calls, gw_results,
                   env, aux>>

GwCancel ==
    /\ pc = "gw"
    /\ handle # NoHandle
    /\ handle.status \notin Terminal
    /\ handle' = [handle EXCEPT !.status = "CANCELLED"]
    /\ gw_calls' = [gw_calls EXCEPT !.cancelled = TRUE]
    /\ UNCHANGED <<policy_name, num_twins, registry, history, buffers,
                   job_counter, bandit, step_id, pc, now, loc, gw_results, env, aux>>

GwGetResult ==
    /\ pc = "gw"
    /\ handle # NoHandle
    /\ gw_results.n < MaxFetches
    /\ \E t \in Advance(now), u_fail \in env.fail, jitter \in env.noise_jitter,
          ones \in env.ones, u_obj \in env.obj :
         LET res == GetResult(handle, t, u_fail, jitter, ones, u_obj)
         IN /\ handle' = [handle EXCEPT !.status = res.status]
            /\ now' = t
            /\ gw_results' = Returned(handle, t, res.qr)
    /\ UNCHANGED <<policy_name, num_twins, registry, history, buffers,
                   job_counter, bandit, step_id, pc, loc, gw_calls, env, aux>>

GwNext == GwSubmit \/ GwPoll \/ GwCancel \/ GwGetResult

GwSpec == GwInit /\ [][GwNext]_vars

----------------------------------------------------------------------------
(* Longer runs on few inputs, with any policy selector, and the control
   room's reset between runs *)

RunSteps == 3

PolicySelectors == {"rule", "bandit", "greedy"}

RunTimes == {0, 18001, 20001}

RunTelemetry ==
    { [x1 |-> 0,   x2 |-> 0, x3 |-> 20],
      [x1 |-> 600, x2 |-> 0, x3 |-> 20] }

NarrowEnv ==
    [steps |-> RunSteps, times |-> RunTimes, telemetry |-> RunTelemetry,
     gamma |-> {500}, exec_jitter |-> {0}, fail |-> FailDraws,
     noise_jitter |-> {0}, ones |-> {64}, obj |-> ObjDraws,
     force_fail |-> FALSE, deadline |-> <<>>]

(* a TwinCORE with its twins created, and a fresh extractor, gateway and
   orchestrator: what run_sim and build_runtime set up *)
StartRuntime ==
    /\ registry' = [t \in 1 .. num_twins |-> create_twin(t)]
    /\ history' = <<>>
    /\ buffers' = [t \in 1 .. num_twins |-> <<>>]
    /\ job_counter' = 0
    /\ bandit' = [updates |-> 0, last_y |-> 0]
    /\ step_id' = 0
    /\ pc' = "idle"
    /\ now' = 0
    /\ handle' = NoHandle
    /\ loc' = NoLoc
    /\ gw_calls' = NoCalls
    /\ gw_results' = NoResults

RunInit ==
    /\ policy_name \in PolicySelectors
    /\ num_twins \in 1 .. MaxTwins
    /\ registry = [t \in 1 .. num_twins |-> create_twin(t)]
    /\ history = <<>>
    /\ buffers = [t \in 1 .. num_twins |-> <<>>]
    /\ job_counter = 0
    /\ bandit = [updates |-> 0, last_y |-> 0]
    /\ step_id = 0
    /\ pc = "idle"
    /\ now = 0
    /\ handle = NoHandle
    /\ loc = NoLoc
    /\ gw_calls = NoCalls
    /\ gw_results = NoResults
    /\ env = NarrowEnv
    /\ prior_run = None
    /\ twin_call = NoCall
    /\ fn_call = NoFn

(* the control room's reset_runtime, between two steps *)
ResetRuntime ==
    /\ pc = "idle"
    /\ step_id > 0
    /\ StartRuntime
    /\ UNCHANGED <<policy_name, num_twins, env, aux>>

RunNext == BeginStep \/ PollIter \/ FetchResult \/ FinishStep \/ ResetRuntime

RunSpec == RunInit /\ [][RunNext]_vars

----------------------------------------------------------------------------
(* The two test configurations: a gateway whose failure probability is
   forced to 1.0, and an SLA whose deadline_ms is 1 *)

(* Instants around a deadline of 1 ms, the first poll after one sleep, and
   an instant past every job's ready time *)
TinyTimes == {0, 1, 2, 20, 70000}

ForcedFailEnv == [WideEnv EXCEPT !.force_fail = TRUE]

TinyDeadlineEnv == [WideEnv EXCEPT !.deadline = <<1>>, !.times = TinyTimes]

ScenarioInit ==
    /\ policy_name \in {"rule", "bandit"}
    /\ num_twins \in 1 .. MaxTwins
    /\ registry = [t \in 1 .. num_twins |-> create_twin(t)]
    /\ history = <<>>
    /\ buffers = [t \in 1 .. num_twins |-> <<>>]
    /\ job_counter = 0
    /\ bandit = [updates |-> 0, last_y |-> 0]
    /\ step_id = 0
    /\ pc = "idle"
    /\ now = 0
    /\ handle = NoHandle
    /\ loc = NoLoc
    /\ gw_calls = NoCalls
    /\ gw_results = NoResults
    /\ env \in {ForcedFailEnv, TinyDeadlineEnv}
    /\ prior_run = None
    /\ twin_call = NoCall
    /\ fn_call = NoFn

ScenarioSpec == ScenarioInit /\ [][Next]_vars

----------------------------------------------------------------------------
(* Two runs of the rule-policy orchestrator on the same seeds and the same
   telemetry: every generator yields one value, the clock alone is free *)

PairTelemetry ==
    { [x1 |-> 0, x2 |-> 0, x3 |-> 20],
      [x1 |-> 0, x2 |-> 0, x3 |-> 25] }

PairEnvs ==
    { [WideEnv EXCEPT !.telemetry = {tel}, !.gamma = {g}, !.fail = {f},
                      !.noise_jitter = {0}, !.ones = {64}] :
        tel \in PairTelemetry, g \in GammaSamples, f \in FailDraws }

PairInit ==
    /\ policy_name = "rule"
    /\ num_twins = 1
    /\ registry = [t \in 1 .. 1 |-> create_twin(t)]
    /\ history = <<>>
    /\ buffers = [t \in 1 .. 1 |-> <<>>]
    /\ job_counter = 0
    /\ bandit = [updates |-> 0, last_y |-> 0]
    /\ step_id = 0
    /\ pc = "idle"
    /\ now = 0
    /\ handle = NoHandle
    /\ loc = NoLoc
    /\ gw_calls = NoCalls
    /\ gw_results = NoResults
    /\ env \in PairEnvs
    /\ prior_run = None
    /\ twin_call = NoCall
    /\ fn_call = NoFn

(* the first run is over: its history is kept aside and run_sim is called
   again with the same arguments *)
Rerun ==
    /\ pc = "idle"
    /\ step_id = env.steps
    /\ prior_run = None
    /\ prior_run' = Some(history)
    /\ StartRuntime
    /\ UNCHANGED <<policy_name, num_twins, env, twin_call, fn_call>>

PairNext == BeginStep \/ PollIter \/ FetchResult \/ FinishStep \/ Rerun

PairSpec == PairInit /\ [][PairNext]_vars

----------------------------------------------------------------------------
(* TwinCORE called directly: create_twin, update_from_telemetry and
   apply_action on any id, registered or not *)

MaxCalls == 4

TwinIds == 1 .. MaxTwins

(* telemetry values of either sign, small and large *)
TwinTelemetry ==
    { [x1 |-> 100,   x2 |-> -200, x3 |-> 20],
      [x1 |-> -1000, x2 |-> 300,  x3 |-> 25],
      [x1 |-> 30000, x2 |-> 0,    x3 |-> 0] }

(* an action without a damp (action.get("damp", 0.0)), one with damp 0 and
   one with damp 5 *)
TwinActions ==
    { [damp |-> None, mode |-> "none"],
      [damp |-> Some(0), mode |-> "baseline_classical"],
      [damp |-> Some(500), mode |-> "baseline_classical"] }

(* Lookup that registers an unknown id instead of raising *)
MutLookupCreates(reg, tid) ==
    IF tid \in DOMAIN reg THEN Some(reg[tid]) ELSE Some(create_twin(tid))

(* self.registry[twin_id]: the twin, or None for the KeyError *)
Lookup(reg, tid) == IF tid \in DOMAIN reg THEN Some(reg[tid]) ELSE None

(* self.registry[twin_id] = st *)
Store(reg, tid, st) == [t \in DOMAIN reg \cup {tid} |-> IF t = tid THEN st ELSE reg[t]]

Called(op, tid, raised) ==
    [op |-> op, twin_id |-> tid, raised |-> raised, n |-> twin_call.n + 1]

TwInit ==
    /\ policy_name = "rule"
    /\ num_twins = 0
    /\ registry = <<>>
    /\ history = <<>>
    /\ buffers = <<>>
    /\ job_counter = 0
    /\ bandit = [updates |-> 0, last_y |-> 0]
    /\ step_id = 0
    /\ pc = "twin"
    /\ now = 0
    /\ handle = NoHandle
    /\ loc = NoLoc
    /\ gw_calls = NoCalls
    /\ gw_results = NoResults
    /\ env = WideEnv
    /\ prior_run = None
    /\ twin_call = NoCall
    /\ fn_call = NoFn

TwCreate ==
    /\ pc = "twin"
    /\ twin_call.n < MaxCalls
    /\ \E tid \in TwinIds :
         /\ registry' = Store(registry, tid, create_twin(tid))
         /\ twin_call' = Called("create_twin", tid, FALSE)
    /\ UNCHANGED <<policy_name, num_twins, history, buffers, job_counter,
                   bandit, step_id, pc, now, handle, loc, gw_calls, gw_results,
                   env, prior_run, fn_call>>

TwUpdate ==
    /\ pc = "twin"
    /\ twin_call.n < MaxCalls
    /\ \E tid \in TwinIds, tel \in TwinTelemetry :
         LET found == Lookup(registry, tid)
         IN IF found = None
            THEN /\ registry' = registry
                 /\ twin_call' = Called("update_from_telemetry", tid, TRUE)
            ELSE /\ registry' = Store(registry, tid,
                                      update_from_telemetry(found[1], tel))
                 /\ twin_call' = Called("update_from_telemetry", tid, FALSE)
    /\ UNCHANGED <<policy_name, num_twins, history, buffers, job_counter,
                   bandit, step_id, pc, now, handle, loc, gw_calls, gw_results,
                   env, prior_run, fn_call>>

TwApply ==
    /\ pc = "twin"
    /\ twin_call.n < MaxCalls
    /\ \E tid \in TwinIds, action \in TwinActions :
         LET found == Lookup(registry, tid)
         IN IF found = None
            THEN /\ registry' = registry
                 /\ twin_call' = Called("apply_action", tid, TRUE)
            ELSE /\ registry' = Store(registry, tid,
                                      apply_action(found[1], action))
                 /\ twin_call' = Called("apply_action", tid, FALSE)
    /\ UNCHANGED <<policy_name, num_twins, history, buffers, job_counter,
                   bandit, step_id, pc, now, handle, loc, gw_calls, gw_results,
                   env, prior_run, fn_call>>

TwNext == TwCreate \/ TwUpdate \/ TwApply

TwinSpec == TwInit /\ [][TwNext]_vars

----------------------------------------------------------------------------
(* FallbackManager.should_fallback called on its own, on every combination
   of a status, a queue time, a cost and a noise level, absent or around
   its limit *)

Statuses == {"PENDING", "RUNNING", "SUCCEEDED", "FAILED", "CANCELLED"}

QueueArgs == {None, Some(0), Some(60000), Some(60001)}

CostArgs == {None, Some(300000), Some(300001)}

NoiseArgs == {None, Some(15000), Some(15001)}

FallbackArgs ==
    [status : Statuses, queue_ms : QueueArgs, cost_eur : CostArgs,
     noise_proxy : NoiseArgs, sla : {_make_sla("LOW")}]

FbInit ==
    /\ policy_name = "rule"
    /\ num_twins = 0
    /\ registry = <<>>
    /\ history = <<>>
    /\ buffers = <<>>
    /\ job_counter = 0
    /\ bandit = [updates |-> 0, last_y |-> 0]
    /\ step_id = 0
    /\ pc = "fn"
    /\ now = 0
    /\ handle = NoHandle
    /\ loc = NoLoc
    /\ gw_calls = NoCalls
    /\ gw_results = NoResults
    /\ env = WideEnv
    /\ prior_run = None
    /\ twin_call = NoCall
    /\ \E a \in FallbackArgs :
         fn_call = [fn |-> "should_fallback", args |-> a, out |-> None]

FbApply ==
    /\ pc = "fn"
    /\ fn_call.fn = "should_fallback"
    /\ fn_call.out = None
    /\ LET a == fn_call.args
       IN fn_call' = [fn_call EXCEPT
                        !.out = Some(ShouldFallback(a.status, a.queue_ms,
                                                    a.cost_eur, a.noise_proxy,
                                                    a.sla))]
    /\ UNCHANGED <<policy_name, num_twins, registry, history, buffers,
                   job_counter, bandit, step_id, pc, now, handle, loc,
                   gw_calls, gw_results, env, prior_run, twin_call>>

FbNext == FbApply

FallbackSpec == FbInit /\ [][FbNext]_vars

----------------------------------------------------------------------------
(* The pure functions called on their own: ResultValidator.validate,
   SimpleRulePolicy.choose, _risk_classify with _make_sla, and _build_qre
   with build_qubo_stub, each on every combination of arguments around its
   thresholds *)

DecisionArgs ==
    {None} \cup { Some([damp |-> d, mode |-> "quantum_candidate"]) :
                    d \in {None, Some(-1), Some(0), Some(500), Some(501)} }

ValidateArgs ==
    { [status |-> st,
       solution |-> [best_bitstring |-> None, decoded_decision |-> d,
                     objective_value |-> o, confidence |-> None]] :
        st \in Statuses, d \in DecisionArgs, o \in {None, Some(-9000)} }

HealthArgs == {0, 1499, 1500, 2499, 2500, 3499, 3500, 5999, 6000, 10000}

(* discrete_ratio as count / window length: 0, 1/2, 3/5, 2/3, 1 *)
RatioArgs == {<<0, 1>>, <<1, 2>>, <<3, 5>>, <<2, 3>>, <<1, 1>>}

RiskArgs == {"LOW", "MEDIUM", "HIGH", "CRITICAL"}

DeadlineArgs == {14999, 15000, 20000}

(* n_vars of two and more: rng.choice(n_vars, size=2, replace=False) *)
NVarsArgs == {2, 12, 13, 20, 21, 200, 1600}

FeaturesOf(health, ratio) ==
    [mu1 |-> 0, mu2 |-> 0, mu3 |-> 0, sig1 |-> 0, sig2 |-> 0, sig3 |-> 0,
     dr_num |-> ratio[1], dr_den |-> ratio[2], health |-> health]

RuleArgs ==
    { [features |-> FeaturesOf(h, r),
       sla |-> [_make_sla(k) EXCEPT !.deadline_ms = d]] :
        h \in HealthArgs, r \in RatioArgs, k \in RiskArgs, d \in DeadlineArgs }

QreArgs ==
    { [features |-> FeaturesOf(10000, r), n_vars |-> n] :
        r \in RatioArgs, n \in NVarsArgs }

PureInit ==
    /\ policy_name = "rule"
    /\ num_twins = 0
    /\ registry = <<>>
    /\ history = <<>>
    /\ buffers = <<>>
    /\ job_counter = 0
    /\ bandit = [updates |-> 0, last_y |-> 0]
    /\ step_id = 0
    /\ pc = "fn"
    /\ now = 0
    /\ handle = NoHandle
    /\ loc = NoLoc
    /\ gw_calls = NoCalls
    /\ gw_results = NoResults
    /\ env = WideEnv
    /\ prior_run = None
    /\ twin_call = NoCall
    /\ \/ \E a \in ValidateArgs :
            fn_call = [fn |-> "validate", args |-> a, out |-> None]
       \/ \E a \in RuleArgs :
            fn_call = [fn |-> "choose", args |-> a, out |-> None]
       \/ \E h \in HealthArgs :
            fn_call = [fn |-> "_risk_classify", args |-> FeaturesOf(h, <<0, 1>>),
                       out |-> None]
       \/ \E a \in QreArgs :
            fn_call = [fn |-> "_build_qre", args |-> a, out |-> None]

ValidateApply ==
    /\ pc = "fn"
    /\ fn_call.fn = "validate"
    /\ fn_call.out = None
    /\ fn_call' = [fn_call EXCEPT !.out = Some(Validate(fn_call.args))]
    /\ UNCHANGED <<policy_name, num_twins, registry, history, buffers,
                   job_counter, bandit, step_id, pc, now, handle, loc,
                   gw_calls, gw_results, env, prior_run, twin_call>>

RuleApply ==
    /\ pc = "fn"
    /\ fn_call.fn = "choose"
    /\ fn_call.out = None
    /\ fn_call' = [fn_call EXCEPT
                     !.out = Some(RuleChoose(fn_call.args.features,
                                             fn_call.args.sla))]
    /\ UNCHANGED <<policy_name, num_twins, registry, history, buffers,
                   job_counter, bandit, step_id, pc, now, handle, loc,
                   gw_calls, gw_results, env, prior_run, twin_call>>

(* risk = self._risk_classify(st, features); sla = self._make_sla(risk) *)
RiskApply ==
    /\ pc = "fn"
    /\ fn_call.fn = "_risk_classify"
    /\ fn_call.out = None
    /\ LET risk == _risk_classify(fn_call.args)
       IN fn_call' = [fn_call EXCEPT
                        !.out = Some([risk |-> risk, sla |-> _make_sla(risk)])]
    /\ UNCHANGED <<policy_name, num_twins, registry, history, buffers,
                   job_counter, bandit, step_id, pc, now, handle, loc,
                   gw_calls, gw_results, env, prior_run, twin_call>>

QreApply ==
    /\ pc = "fn"
    /\ fn_call.fn = "_build_qre"
    /\ fn_call.out = None
    /\ LET a == fn_call.args
           sla == _make_sla(_risk_classify(a.features))
       IN fn_call' = [fn_call EXCEPT
                        !.out = Some([qre |-> _build_qre(create_twin(1),
                                                         a.features, sla, 1),
                                      stub |-> build_qubo_stub(a.features,
                                                               a.n_vars)])]
    /\ UNCHANGED <<policy_name, num_twins, registry, history, buffers,
                   job_counter, bandit, step_id, pc, now, handle, loc,
                   gw_calls, gw_results, env, prior_run, twin_call>>

PureNext == ValidateApply \/ RuleApply \/ RiskApply \/ QreApply

PureSpec == PureInit /\ [][PureNext]_vars

----------------------------------------------------------------------------
(* FeatureExtractor.update called on its own, for any twins in any order;
   fn_call.args is the sequence of the (twin, sample) pairs passed so far *)

WindowSamples == {<<0, 0, 20>>, <<100, -200, 25>>, <<600, 0, 20>>}

ExtInit ==
    /\ policy_name = "rule"
    /\ num_twins = 0
    /\ registry = <<>>
    /\ history = <<>>
    /\ buffers = <<>>
    /\ job_counter = 0
    /\ bandit = [updates |-> 0, last_y |-> 0]
    /\ step_id = 0
    /\ pc = "extractor"
    /\ now = 0
    /\ handle = NoHandle
    /\ loc = NoLoc
    /\ gw_calls = NoCalls
    /\ gw_results = NoResults
    /\ env = WideEnv
    /\ prior_run = None
    /\ twin_call = NoCall
    /\ fn_call = [fn |-> "update", args |-> <<>>, out |-> None]

(* self.buffers.setdefault(st.twin_id, []) *)
BufferOf(tid) == IF tid \in DOMAIN buffers THEN buffers[tid] ELSE <<>>

ExtUpdate ==
    /\ pc = "extractor"
    /\ Len(fn_call.args) < MaxCalls
    /\ \E tid \in TwinIds, sample \in WindowSamples :
         LET st == [create_twin(tid) EXCEPT !.x1 = sample[1], !.x2 = sample[2],
                                            !.x3 = sample[3],
                                            !.health = Health(sample[1], sample[2])]
             buf == PushWindow(BufferOf(tid), <<st.x1, st.x2, st.x3>>)
         IN /\ buffers' = Store(buffers, tid, buf)
            /\ fn_call' = [fn_call EXCEPT
                             !.args = Append(@, <<tid, sample>>),
                             !.out = Some(Features(buf, st))]
    /\ UNCHANGED <<policy_name, num_twins, registry, history, job_counter,
                   bandit, step_id, pc, now, handle, loc, gw_calls, gw_results,
                   env, prior_run, twin_call>>

ExtNext == ExtUpdate

ExtractorSpec == ExtInit /\ [][ExtNext]_vars

----------------------------------------------------------------------------
(* Properties *)

Records == {history[i] : i \in 1 .. Len(history)}

DampOf(qr) == qr.solution.decoded_decision[1].damp

(* C1: every record with route QUANTUM carries a result snapshot whose status
   is SUCCEEDED and whose decoded decision has a damp within [0, 5]. *)
C1_QuantumHasValidResult ==
    \A r \in Records :
        r.route = "QUANTUM" =>
            /\ r.result_json # None
            /\ r.result_json[1].status = "SUCCEEDED"
            /\ r.result_json[1].solution.decoded_decision # None
            /\ DampOf(r.result_json[1]) # None
            /\ 0 <= DampOf(r.result_json[1])[1]
            /\ DampOf(r.result_json[1])[1] <= 500

C1_Witness == \E r \in Records : r.route = "QUANTUM" /\ r.exec_ms = 20000

(* C2 as stated: in every record, fallback_reasons is non-empty exactly when
   the route is FALLBACK_CLASSICAL. *)
C2_ReasonsIffFallback ==
    \A r \in Records :
        (r.fallback_reasons # <<>>) <=> (r.route = "FALLBACK_CLASSICAL")

(* C2 amended: in every record, fallback_reasons is non-empty exactly when the
   route is FALLBACK_CLASSICAL, or the route is CLASSICAL and the latency
   breached (the list is then SLA_BREACH alone). *)
C2_ReasonsIffFallbackOrClassicalBreach ==
    \A r \in Records :
        /\ (r.fallback_reasons # <<>>) <=>
               (\/ r.route = "FALLBACK_CLASSICAL"
                \/ (r.route = "CLASSICAL" /\ r.latency_breach))
        /\ (r.route = "CLASSICAL" /\ r.latency_breach) =>
               r.fallback_reasons = <<"SLA_BREACH">>

C2_Witness ==
    \E r \in Records :
        r.route = "CLASSICAL" /\ r.latency_breach
        /\ r.fallback_reasons = <<"SLA_BREACH">>

(* C3: every record with route FALLBACK_CLASSICAL has at least one reason
   code, whichever of the fallback manager, the validator and the latency
   downgrade caused the fallback. *)
C3_FallbackHasReason ==
    \A r \in Records :
        r.route = "FALLBACK_CLASSICAL" => Len(r.fallback_reasons) >= 1

C3_Witness ==
    \E r \in Records :
        r.route = "FALLBACK_CLASSICAL" /\ r.fallback_reasons = <<"SLA_BREACH">>

(* C4: step never raises: every started step ends with one record appended
   and one action applied, and a quantum attempt that did not succeed shows
   only as a FALLBACK_CLASSICAL record with its reasons. *)
C4_StepAlwaysReturns ==
    /\ pc # "raised"
    /\ Len(history) = (IF pc = "idle" THEN step_id ELSE step_id - 1)
    /\ (pc = "idle" /\ step_id > 0) =>
           registry[loc.twin].last_action = loc.action
    /\ \A r \in Records :
           (r.result_json # None /\ r.result_json[1].status # "SUCCEEDED") =>
               (r.route = "FALLBACK_CLASSICAL" /\ r.fallback_reasons # <<>>)

C4_Witness ==
    /\ pc = "idle"
    /\ \E r \in Records :
           r.result_json # None /\ r.result_json[1].status = "FAILED"

(* C5: in a step whose health is below 0.15, under either policy, the
   intended route is CLASSICAL whatever discrete_ratio is, no job is
   submitted, and the record's route is CLASSICAL. *)
C5_CriticalNeverQuantum ==
    (loc.features # None /\ loc.features[1].health < 1500) =>
        /\ loc.route = "CLASSICAL"
        /\ loc.qre_json = None
        /\ handle = NoHandle
        /\ pc = "idle" => history[Len(history)].route = "CLASSICAL"

C5_Witness ==
    /\ policy_name = "bandit"
    /\ pc = "idle"
    /\ loc.features # None
    /\ loc.features[1].health < 1500
    /\ loc.features[1].dr_num = loc.features[1].dr_den
    /\ history[Len(history)].route = "CLASSICAL"

(* C6: once a result was returned at or after the handle's ready time, every
   later get_result on the handle returns the same terminal status and the
   same solution. *)
C6_GetResultFrozen ==
    gw_results.first # None =>
        /\ gw_results.first[1].status \in Terminal
        /\ gw_results.last[1].status = gw_results.first[1].status
        /\ gw_results.last[1].solution = gw_results.first[1].solution

(* C7: get_result before the handle's ready time returns status PENDING, an
   empty solution and an error text, and leaves handle.status as it was. *)
C7_NotReadyIsPending ==
    [][(/\ handle # NoHandle
        /\ gw_results'.n = gw_results.n + 1
        /\ now' < handle.ready_ts)
       => (/\ gw_results'.last[1].status = "PENDING"
           /\ gw_results'.last[1].solution = EmptySolution
           /\ gw_results'.last[1].error # None
           /\ handle' # NoHandle
           /\ handle'.status = handle.status)]_vars

C7_Witness ==
    /\ handle # NoHandle
    /\ gw_results.n > 0
    /\ gw_results.before = "CANCELLED"
    /\ gw_results.last[1].status = "PENDING"
    /\ handle.status = "CANCELLED"

(* C8: once a handle's status is SUCCEEDED, FAILED or CANCELLED, no later
   poll, get_result or orchestrator action changes it. *)
C8_TerminalStatusKept ==
    [][(handle # NoHandle /\ handle' # NoHandle /\ handle.status \in Terminal)
       => handle'.status = handle.status]_vars

(* C9: after the poll loop has marked the attempt CANCELLED, the orchestrator
   makes no further poll or get_result call for it. *)
C9_NoGatewayCallAfterCancel ==
    gw_calls.cancelled => gw_calls.after_cancel = <<>>

(* C10: a poll loop that has started ends: it goes on only while the status
   is not terminal and elapsed_ms is at most int(0.90 * deadline_ms), and the
   step then emits its record. *)
C10_PollLoopTerminates ==
    /\ [][(pc = "poll" /\ pc' = "poll")
          => (/\ handle.status \notin Terminal
              /\ now <= CancelLimit(loc.sla[1].deadline_ms)
              /\ now' > now)]_vars
    /\ (pc = "poll") ~> (pc = "idle")

C10_Witness ==
    /\ pc = "idle"
    /\ \E r \in Records :
           /\ r.result_json # None
           /\ r.result_json[1].status = "PENDING"
           /\ r.exec_ms > 18000

Has(seq, x) == \E i \in 1 .. Len(seq) : seq[i] = x

Attempted(r) == r.qre_json # None

(* C11: with the gateway's failure probability forced to 1.0, every record
   of a step that submitted a job has route FALLBACK_CLASSICAL and JOB_FAILED
   among its fallback_reasons, whatever the queue and execution time. *)
C11_ForcedFailureIsJobFailed ==
    env.force_fail =>
        \A r \in Records :
            Attempted(r) =>
                /\ r.route = "FALLBACK_CLASSICAL"
                /\ Has(r.fallback_reasons, "JOB_FAILED")

(* C12 as stated: with deadline_ms = 1, every record has latency_breach true
   and every record of a step that intended QUANTUM has route
   FALLBACK_CLASSICAL. *)
C12_TinyDeadlineAlwaysBreaches ==
    env.deadline = <<1>> =>
        \A r \in Records :
            /\ r.latency_breach
            /\ Attempted(r) => r.route = "FALLBACK_CLASSICAL"

(* C12 amended: with deadline_ms = 1, a record has latency_breach true
   exactly when its exec_ms exceeds 1; every record of a step that intended
   QUANTUM has latency_breach true and route FALLBACK_CLASSICAL, and every
   other record has route CLASSICAL. *)
C12_TinyDeadlineBreachesPastOneMs ==
    env.deadline = <<1>> =>
        \A r \in Records :
            /\ r.latency_breach <=> (r.exec_ms > 1)
            /\ Attempted(r) =>
                   (r.latency_breach /\ r.route = "FALLBACK_CLASSICAL")
            /\ ~Attempted(r) => r.route = "CLASSICAL"

C12_Witness ==
    /\ env.deadline = <<1>>
    /\ \E r \in Records :
           /\ Attempted(r)
           /\ r.exec_ms = 20
           /\ r.latency_breach
           /\ r.route = "FALLBACK_CLASSICAL"

(* C13: under the bandit policy, ContextualBanditPolicy.update has run
   exactly once for each finished step: as many times as there are records,
   all of them before the step in progress chose its route. *)
C13_BanditUpdatedOncePerStep ==
    policy_name = "bandit" =>
        /\ bandit.updates = Len(history)
        /\ bandit.updates = (IF pc = "idle" THEN step_id ELSE step_id - 1)

C13_Witness ==
    /\ policy_name = "bandit"
    /\ pc = "idle"
    /\ bandit.updates = RunSteps
    /\ \E r \in Records : r.route = "CLASSICAL"
    /\ \E r \in Records : r.route = "QUANTUM"
    /\ \E r \in Records : r.route = "FALLBACK_CLASSICAL"

(* what C14 compares of a record *)
Audit(r) ==
    [route |-> r.route, exec_ms |-> r.exec_ms,
     latency_breach |-> r.latency_breach,
     fallback_reasons |-> r.fallback_reasons,
     objective_value |-> r.objective_value, confidence |-> r.confidence,
     qre_json |-> r.qre_json, result_json |-> r.result_json]

(* C14: a second run of the rule-policy orchestrator on the same seeds,
   parameters and telemetry ends with the same records as the first, step
   by step, whatever the clock did in either run. *)
C14_RerunSameRecords ==
    (prior_run # None /\ pc = "idle" /\ step_id = env.steps) =>
        /\ Len(history) = Len(prior_run[1])
        /\ \A i \in 1 .. Len(history) :
               Audit(history[i]) = Audit(prior_run[1][i])

(* C15: after any sequence of create_twin, update_from_telemetry and
   apply_action calls, the health of every registered twin is in [0, 1]. *)
C15_HealthInUnitInterval ==
    \A tid \in DOMAIN registry :
        0 <= registry[tid].health /\ registry[tid].health <= 10000

C15_Witness ==
    /\ pc = "twin"
    /\ \E tid \in DOMAIN registry :
           /\ registry[tid].x1 = -900
           /\ registry[tid].last_action # None
           /\ registry[tid].health = 0

(* C16: in every record, qre_json and result_json are both set exactly when
   the route is QUANTUM or FALLBACK_CLASSICAL, which is exactly when the
   step's intended route was QUANTUM; a CLASSICAL record has qre_json,
   result_json, qpu_queue_ms, noise_proxy and cost_eur all null. *)
C16_AuditFieldsIffAttempt ==
    /\ \A r \in Records :
           /\ (r.qre_json # None) <=> (r.route \in {"QUANTUM", "FALLBACK_CLASSICAL"})
           /\ (r.result_json # None) <=> (r.route \in {"QUANTUM", "FALLBACK_CLASSICAL"})
           /\ r.route = "CLASSICAL" =>
                  /\ r.qpu_queue_ms = None
                  /\ r.noise_proxy = None
                  /\ r.cost_eur = None
    /\ (pc = "idle" /\ step_id > 0) =>
           ((loc.route = "QUANTUM") <=> (history[Len(history)].qre_json # None))

C16_Witness ==
    /\ pc = "idle"
    /\ loc.route = "QUANTUM"
    /\ \E r \in Records :
           /\ r.route = "FALLBACK_CLASSICAL"
           /\ r.qre_json # None
           /\ r.result_json # None
           /\ r.qpu_queue_ms = None

(* C17: in the history of one orchestrator instance, each record's step_id
   is strictly greater than the step_id of the record before it. *)
C17_StepIdIncreasing ==
    \A i \in 1 .. Len(history) - 1 :
        history[i].step_id < history[i + 1].step_id

C17_Witness ==
    /\ Len(history) = RunSteps
    /\ history[RunSteps].step_id = RunSteps

(* C18: create_twin on an id that is already registered raises and leaves
   the registered twin as it was. *)
C18_DuplicateCreateFails ==
    [][(/\ twin_call'.n = twin_call.n + 1
        /\ twin_call'.op = "create_twin"
        /\ twin_call'.twin_id \in DOMAIN registry)
       => (twin_call'.raised /\ registry' = registry)]_vars

(* C19: update_from_telemetry and apply_action on an id that was never
   created raise, and leave the registry and the history unchanged. *)
C19_UnknownIdRaises ==
    [][(/\ twin_call'.n = twin_call.n + 1
        /\ twin_call'.op \in {"update_from_telemetry", "apply_action"}
        /\ twin_call'.twin_id \notin DOMAIN registry)
       => (/\ twin_call'.raised
           /\ registry' = registry
           /\ history' = history)]_vars

C19_Witness ==
    /\ twin_call.op = "apply_action"
    /\ twin_call.raised
    /\ DOMAIN registry # {}
    /\ twin_call.twin_id \notin DOMAIN registry

(* C20: an orchestrator constructed with a policy selector other than rule
   and bandit runs no step. *)
C20_UnknownSelectorRejected ==
    policy_name \notin {"rule", "bandit"} =>
        (step_id = 0 /\ history = <<>>)

LastRecord == history[Len(history)]

(* a step has returned and its record is the last of the history *)
StepDone == pc = "idle" /\ step_id > 0 /\ history # <<>>

(* the classical output for the state and features of the step *)
ClassicalOutput == ClassicalSolve(loc.st, loc.features[1])

(* C21: a step whose poll loop marked the attempt CANCELLED ends with route
   FALLBACK_CLASSICAL and emits the classical action, never route QUANTUM. *)
C21_CancelledNeverQuantum ==
    (StepDone /\ gw_calls.cancelled) =>
        /\ LastRecord.route = "FALLBACK_CLASSICAL"
        /\ loc.action = Some(ClassicalOutput.action)

(* C22: the record of a step whose poll loop marked the attempt CANCELLED
   has JOB_FAILED or JOB_CANCELLED among its fallback_reasons. *)
C22_CancelledRecordsJobFailure ==
    (StepDone /\ gw_calls.cancelled) =>
        \/ Has(LastRecord.fallback_reasons, "JOB_FAILED")
        \/ Has(LastRecord.fallback_reasons, "JOB_CANCELLED")

(* C23: when the final latency check breaches, SLA_BREACH is appended to
   the reasons; a QUANTUM route becomes FALLBACK_CLASSICAL with the classical
   action, objective and confidence, and any other route keeps its route,
   action, objective and confidence. *)
C23_BreachDowngradesQuantumOnly ==
    [][(pc = "finish" /\ pc' = "idle" /\ history'[Len(history')].latency_breach)
       => LET r == history'[Len(history')]
          IN /\ r.fallback_reasons = loc.fallback_reasons \o <<"SLA_BREACH">>
             /\ registry'[loc.twin].last_action = loc'.action
             /\ IF loc.final_route = "QUANTUM"
                THEN /\ r.route = "FALLBACK_CLASSICAL"
                     /\ loc'.action = Some(ClassicalOutput.action)
                     /\ r.objective_value = ClassicalOutput.obj
                     /\ r.confidence = ClassicalOutput.conf
                ELSE /\ r.route = loc.final_route
                     /\ loc'.action = loc.action
                     /\ r.objective_value = loc.obj
                     /\ r.confidence = loc.conf]_vars

C23_Witness ==
    /\ StepDone
    /\ LastRecord.exec_ms = 20001
    /\ LastRecord.latency_breach
    /\ LastRecord.route = "FALLBACK_CLASSICAL"
    /\ LastRecord.result_json # None
    /\ LastRecord.result_json[1].status = "SUCCEEDED"
    /\ LastRecord.objective_value = ClassicalOutput.obj

(* C24: a record has latency_breach true exactly when its exec_ms is
   strictly greater than the step's deadline_ms, and has SLA_BREACH among
   its fallback_reasons exactly when latency_breach is true. *)
C24_BreachIffPastDeadline ==
    /\ \A r \in Records :
           Has(r.fallback_reasons, "SLA_BREACH") <=> r.latency_breach
    /\ StepDone =>
           (LastRecord.latency_breach <=>
                (LastRecord.exec_ms > loc.sla[1].deadline_ms))

C24_Witness ==
    /\ StepDone
    /\ LastRecord.exec_ms = 20000
    /\ loc.sla[1].deadline_ms = 20000
    /\ ~LastRecord.latency_breach
    /\ ~Has(LastRecord.fallback_reasons, "SLA_BREACH")

(* C25: every record with route QUANTUM has latency_breach false and no
   fallback reason. *)
C25_QuantumCleanRecord ==
    \A r \in Records :
        r.route = "QUANTUM" =>
            (~r.latency_breach /\ r.fallback_reasons = <<>>)

C25_Witness ==
    \E r \in Records :
        /\ r.route = "QUANTUM"
        /\ r.exec_ms = 18001
        /\ r.noise_proxy # None
        /\ r.fallback_reasons = <<>>

(* C26: on routes CLASSICAL and FALLBACK_CLASSICAL the emitted action, the
   objective and the confidence are the classical solver's for the step's
   state and features; on route QUANTUM they are the result's decoded
   decision, objective and confidence. *)
C26_OutputMatchesRoute ==
    StepDone =>
        /\ registry[loc.twin].last_action = loc.action
        /\ IF LastRecord.route = "QUANTUM"
           THEN /\ LastRecord.result_json # None
                /\ LET sol == LastRecord.result_json[1].solution
                   IN /\ loc.action = sol.decoded_decision
                      /\ sol.objective_value = Some(LastRecord.objective_value)
                      /\ sol.confidence = Some(LastRecord.confidence)
           ELSE /\ loc.action = Some(ClassicalOutput.action)
                /\ LastRecord.objective_value = ClassicalOutput.obj
                /\ LastRecord.confidence = ClassicalOutput.conf

C26_Witness ==
    /\ StepDone
    /\ LastRecord.route = "FALLBACK_CLASSICAL"
    /\ LastRecord.fallback_reasons = <<"NOISE_TOO_HIGH">>
    /\ LastRecord.result_json[1].solution.decoded_decision # None
    /\ loc.action = Some(ClassicalOutput.action)

DampWithin(action) ==
    /\ action.damp # None
    /\ 0 <= action.damp[1] /\ action.damp[1] <= 500
    /\ 9000 <= 10000 - 2 * action.damp[1]
    /\ 10000 - 2 * action.damp[1] <= 10000

(* C27: the action of every step, on every route, has a damp within [0, 5],
   so apply_action scales x1 and x2 by a factor within [0.9, 1]. *)
C27_DampWithinBounds ==
    /\ StepDone => (loc.action # None /\ DampWithin(loc.action[1]))
    /\ \A t \in DOMAIN registry :
           registry[t].last_action # None =>
               DampWithin(registry[t].last_action[1])

C27_Witness ==
    /\ StepDone
    /\ LastRecord.route = "CLASSICAL"
    /\ loc.st.x1 = 600
    /\ loc.action[1].damp = Some(500)
    /\ registry[loc.twin].x1 = 540

Attempts ==
    Cardinality({i \in 1 .. Len(history) :
                    history[i].route \in {"QUANTUM", "FALLBACK_CLASSICAL"}})

(* C28: a step submits one job, with the next job id, exactly when its
   intended route is QUANTUM, and the job counter moves at no other time:
   it equals the number of records with route QUANTUM or FALLBACK_CLASSICAL
   (plus the attempt in progress). *)
C28_OneSubmitPerAttempt ==
    /\ [](job_counter = Attempts + (IF handle # NoHandle THEN 1 ELSE 0))
    /\ [](pc \in {"poll", "fetch", "finish"} =>
              ((loc.route = "QUANTUM") <=> (handle # NoHandle)))
    /\ [][(handle = NoHandle /\ handle' # NoHandle)
          => (/\ handle'.job_id = job_counter + 1
              /\ job_counter' = job_counter + 1
              /\ loc'.route = "QUANTUM"
              /\ loc'.qre_json = Some(handle'.qre))]_vars
    /\ [][job_counter' # job_counter
          => (\/ (handle = NoHandle /\ handle' # NoHandle)
              \/ (job_counter' = 0 /\ history' = <<>>))]_vars

C28_Witness ==
    /\ pc = "idle"
    /\ Len(history) = RunSteps
    /\ job_counter = 2
    /\ Attempts = 2
    /\ \E r \in Records : r.route = "CLASSICAL"

(* C29: poll reports PENDING or RUNNING for a handle that is not terminal,
   at any time; the poll loop of step ends only through the 90% guard, and
   every record with route QUANTUM or FALLBACK_CLASSICAL has
   exec_ms > int(0.90 * deadline_ms). *)
C29_PollLoopEndsByGuard ==
    /\ []((handle # NoHandle /\ handle.status \notin Terminal) =>
              \A t \in env.times : Poll(handle, t) \in {"PENDING", "RUNNING"})
    /\ [][(pc = "poll" /\ pc' = "fetch")
          => (/\ ~gw_calls.cancelled
              /\ gw_calls'.cancelled
              /\ now > CancelLimit(loc.sla[1].deadline_ms))]_vars
    /\ [](\A r \in Records :
              r.route \in {"QUANTUM", "FALLBACK_CLASSICAL"} =>
                  /\ r.qre_json # None
                  /\ r.exec_ms > CancelLimit(r.qre_json[1].sla.deadline_ms))

C29_Witness ==
    \E r \in Records :
        /\ Attempted(r)
        /\ r.qre_json[1].sla.deadline_ms = 25000
        /\ r.exec_ms = 22501

(* C30: should_fallback gives a job-failure reason iff the status is FAILED
   or CANCELLED, QUEUE_TIMEOUT iff queue_ms is present and above
   max_queue_ms, COST_BREACH iff the cost is present and above max_cost_eur,
   NOISE_TOO_HIGH iff the noise is present and above 0.15, each whatever the
   others are, and the flag iff there is a reason. *)
C30_ShouldFallbackReasons ==
    (fn_call.fn = "should_fallback" /\ fn_call.out # None) =>
        LET a == fn_call.args
            o == fn_call.out[1]
        IN /\ (Has(o.reasons, "JOB_FAILED") \/ Has(o.reasons, "JOB_CANCELLED"))
                  <=> (a.status \in {"FAILED", "CANCELLED"})
           /\ Has(o.reasons, "QUEUE_TIMEOUT")
                  <=> (a.queue_ms # None /\ a.queue_ms[1] > a.sla.max_queue_ms)
           /\ Has(o.reasons, "COST_BREACH")
                  <=> (a.cost_eur # None /\ a.cost_eur[1] > a.sla.max_cost_eur)
           /\ Has(o.reasons, "NOISE_TOO_HIGH")
                  <=> (a.noise_proxy # None /\ a.noise_proxy[1] > 15000)
           /\ o.fallback <=> (o.reasons # <<>>)

C30_Witness ==
    /\ fn_call.fn = "should_fallback"
    /\ fn_call.out # None
    /\ fn_call.args.status = "CANCELLED"
    /\ fn_call.out[1].fallback
    /\ fn_call.out[1].reasons =
           <<"JOB_FAILED", "QUEUE_TIMEOUT", "COST_BREACH", "NOISE_TOO_HIGH">>

(* a function of the given name was called on its own and has returned *)
Applied(fn) == fn_call.fn = fn /\ fn_call.out # None

(* what a failed check adds to the number of reasons *)
Violated(x) == IF x THEN 1 ELSE 0

(* C31: validate gives invalid with the single reason NOT_SUCCEEDED for a
   result that did not succeed, whatever its solution holds; for a SUCCEEDED
   result it gives one reason per failed check (decision present, damp
   present and within [0, 5], objective present) and valid iff none failed. *)
C31_ValidateFailsClosed ==
    Applied("validate") =>
        LET qr == fn_call.args
            o == fn_call.out[1]
            sol == qr.solution
            no_decision == sol.decoded_decision = None
            bad_damp == /\ sol.decoded_decision # None
                        /\ \/ sol.decoded_decision[1].damp = None
                           \/ sol.decoded_decision[1].damp[1] < 0
                           \/ sol.decoded_decision[1].damp[1] > 500
            no_objective == sol.objective_value = None
        IN IF qr.status # "SUCCEEDED"
           THEN o = [valid |-> FALSE, reasons |-> <<"NOT_SUCCEEDED">>]
           ELSE /\ o.valid <=> ~(no_decision \/ bad_damp \/ no_objective)
                /\ Has(o.reasons, "MISSING_DECISION") <=> no_decision
                /\ Has(o.reasons, "DECISION_OUT_OF_BOUNDS") <=> bad_damp
                /\ Has(o.reasons, "MISSING_OBJECTIVE") <=> no_objective
                /\ Len(o.reasons) = Violated(no_decision) + Violated(bad_damp)
                                     + Violated(no_objective)

C31_Witness ==
    /\ Applied("validate")
    /\ fn_call.args.status = "SUCCEEDED"
    /\ ~fn_call.out[1].valid
    /\ fn_call.out[1].reasons = <<"DECISION_OUT_OF_BOUNDS", "MISSING_OBJECTIVE">>

(* C32: the rule policy chooses QUANTUM exactly when the risk is not
   CRITICAL, health >= 0.25, discrete_ratio >= 0.6 and deadline_ms >= 15000,
   and CLASSICAL on every other input. *)
C32_RuleChoosesQuantumIff ==
    Applied("choose") =>
        LET f == fn_call.args.features
            sla == fn_call.args.sla
            quantum == /\ sla.risk_class # "CRITICAL"
                       /\ f.health >= 2500
                       /\ 10 * f.dr_num >= 6 * f.dr_den
                       /\ sla.deadline_ms >= 15000
        IN fn_call.out[1] = (IF quantum THEN "QUANTUM" ELSE "CLASSICAL")

C32_Witness ==
    /\ Applied("choose")
    /\ fn_call.out[1] = "QUANTUM"
    /\ fn_call.args.features.health = 2500
    /\ fn_call.args.features.dr_num = 3
    /\ fn_call.args.features.dr_den = 5
    /\ fn_call.args.sla.deadline_ms = 15000

(* C33: the risk is CRITICAL below health 0.15, HIGH below 0.35, MEDIUM
   below 0.60 and LOW from there on; the SLA derived from it has deadline_ms
   25000 exactly when the risk is HIGH and 20000 otherwise, max_queue_ms
   60000 and max_cost_eur 3.0. *)
C33_RiskAndSlaFromHealth ==
    Applied("_risk_classify") =>
        LET h == fn_call.args.health
            o == fn_call.out[1]
        IN /\ o.risk = (IF h < 1500 THEN "CRITICAL"
                        ELSE IF h < 3500 THEN "HIGH"
                        ELSE IF h < 6000 THEN "MEDIUM" ELSE "LOW")
           /\ o.sla.risk_class = o.risk
           /\ o.sla.deadline_ms = (IF o.risk = "HIGH" THEN 25000 ELSE 20000)
           /\ o.sla.max_queue_ms = 60000
           /\ o.sla.max_cost_eur = 300000

C33_Witness ==
    /\ Applied("_risk_classify")
    /\ fn_call.args.health = 3500
    /\ fn_call.out[1].risk = "MEDIUM"
    /\ fn_call.out[1].sla.deadline_ms = 20000

(* the samples passed to update for a twin, in the order they came *)
RECURSIVE SamplesOf(_, _)
SamplesOf(calls, tid) ==
    IF calls = <<>> THEN <<>>
    ELSE LET rest == SamplesOf(SubSeq(calls, 1, Len(calls) - 1), tid)
             last == calls[Len(calls)]
         IN IF last[1] = tid THEN Append(rest, last[2]) ELSE rest

(* the last n elements of a sequence, or all of it *)
LastN(seq, n) ==
    IF Len(seq) <= n THEN seq ELSE SubSeq(seq, Len(seq) - n + 1, Len(seq))

(* C34: the window of each twin holds exactly the last min(k, N) samples
   passed for that twin, in arrival order, whatever was passed for the other
   twins in between; a twin never passed has no window. *)
C34_WindowHoldsLastSamples ==
    pc = "extractor" =>
        /\ \A tid \in TwinIds :
               /\ BufferOf(tid) = LastN(SamplesOf(fn_call.args, tid), WindowN)
               /\ Len(BufferOf(tid)) <= WindowN
        /\ \A tid \in DOMAIN buffers : SamplesOf(fn_call.args, tid) # <<>>

C34_Witness ==
    /\ pc = "extractor"
    /\ Cardinality(DOMAIN buffers) >= 2
    /\ \E tid \in DOMAIN buffers :
           /\ Len(SamplesOf(fn_call.args, tid)) > WindowN
           /\ Len(buffers[tid]) = WindowN
           /\ buffers[tid][1] # SamplesOf(fn_call.args, tid)[1]
           /\ fn_call.args[Len(fn_call.args)][1] # tid

(* C35: the QRE has between 200 and 1600 variables, no fewer for a larger
   discrete_ratio, and a problem stub has at most 12 linear and at most 20
   quadratic terms whatever n_vars is. *)
C35_QreSizeBounded ==
    Applied("_build_qre") =>
        LET a == fn_call.args
            o == fn_call.out[1]
        IN /\ 200 <= o.qre.variables /\ o.qre.variables <= 1600
           /\ o.qre.qubo.linear <= 12 /\ o.qre.qubo.quadratic <= 20
           /\ o.stub.linear <= 12 /\ o.stub.quadratic <= 20
           /\ o.stub.linear <= a.n_vars /\ o.stub.quadratic <= a.n_vars
           /\ \A r \in RatioArgs :
                  (r[1] * a.features.dr_den <= a.features.dr_num * r[2]) =>
                      NVars(FeaturesOf(10000, r)) <= o.qre.variables

C35_Witness ==
    /\ Applied("_build_qre")
    /\ fn_call.args.n_vars = 1600
    /\ fn_call.args.features.dr_num = 2
    /\ fn_call.out[1].qre.variables = 1133
    /\ fn_call.out[1].stub = [linear |-> 12, quadratic |-> 20]

(* C36: every bandit update so far used target -1: the reward of a step is
   never above 0 on any route. *)
C36_BanditTargetNeverPositive ==
    /\ bandit.last_y # 1
    /\ bandit.updates > 0 => bandit.last_y = -1
    /\ StepDone =>
           Reward(LastRecord.objective_value, LastRecord.exec_ms,
                  LastRecord.route) <= 0

C36_Witness ==
    /\ StepDone
    /\ policy_name = "bandit"
    /\ bandit.updates > 0
    /\ bandit.last_y = -1
    /\ LastRecord.route = "QUANTUM"
    /\ LastRecord.exec_ms = 18001

(* C37: in every record, no reason code occurs twice in fallback_reasons. *)
C37_ReasonsDistinct ==
    \A r \in Records :
        \A i, j \in 1 .. Len(r.fallback_reasons) :
            i # j => r.fallback_reasons[i] # r.fallback_reasons[j]

C37_Witness ==
    \E r \in Records :
        r.fallback_reasons =
            <<"JOB_FAILED", "NOISE_TOO_HIGH", "RESULT_INVALID", "NOT_SUCCEEDED",
              "SLA_BREACH">>

(* C38: apply_action changes only last_action, x1 and x2 of the twin it
   names: the twin's x3 and health, every other twin and the history stay,
   and without a damp, or with damp 0, x1 and x2 stay too. *)
C38_ApplyActionFrame ==
    [][(/\ twin_call'.n = twin_call.n + 1
        /\ twin_call'.op = "apply_action"
        /\ ~twin_call'.raised)
       => LET tid == twin_call'.twin_id
              action == registry'[tid].last_action[1]
          IN /\ DOMAIN registry' = DOMAIN registry
             /\ \A t \in DOMAIN registry \ {tid} : registry'[t] = registry[t]
             /\ registry'[tid].twin_id = registry[tid].twin_id
             /\ registry'[tid].x3 = registry[tid].x3
             /\ registry'[tid].health = registry[tid].health
             /\ history' = history
             /\ (action.damp = None \/ action.damp = Some(0)) =>
                    /\ registry'[tid].x1 = registry[tid].x1
                    /\ registry'[tid].x2 = registry[tid].x2]_vars

C38_Witness ==
    /\ twin_call.op = "apply_action"
    /\ ~twin_call.raised
    /\ Cardinality(DOMAIN registry) >= 2
    /\ registry[twin_call.twin_id].last_action # None
    /\ registry[twin_call.twin_id].last_action[1].damp = Some(500)
    /\ registry[twin_call.twin_id].x1 = 90
    /\ registry[twin_call.twin_id].x2 = -180
    /\ registry[twin_call.twin_id].health = 6500

(* C39: the history is append-only: every change of it within a run adds one
   record at the end and keeps the earlier ones as they were, so after n
   iterations it holds the n records of steps 1 .. n in that order. *)
C39_HistoryAppendOnly ==
    /\ [][history' # history
          => (\/ /\ Len(history') = Len(history) + 1
                 /\ SubSeq(history', 1, Len(history)) = history
                 /\ history'[Len(history')].step_id = step_id
              \/ (history' = <<>> /\ step_id' = 0))]_vars
    /\ [](pc = "idle" => Len(history) = step_id)
    /\ [](\A i \in 1 .. Len(history) : history[i].step_id = i)

C39_Witness ==
    /\ pc = "idle"
    /\ step_id = RunSteps
    /\ Len(history) = RunSteps
    /\ history[1].step_id = 1
    /\ history[1].route = "QUANTUM"
    /\ history[RunSteps].route = "CLASSICAL"

====
